---- MODULE Spec2Model ----
(***************************************************************************)
(* Calendar-duration arithmetic (date_ops) and the date iterators built on *)
(* it (date_iterator), modelled for a date value T that carries a year, a  *)
(* month and a day (chrono's NaiveDate).                                  *)
(*                                                                         *)
(* Values.  A date is a record [year, month, day].  Option<T> is either a  *)
(* date or None; a computation that aborts the program (expect/unwrap on   *)
(* an absent value, or an arithmetic overflow in a build that checks       *)
(* overflow) has the outcome Panic.  A duration (a DateOp) is a leaf       *)
(* [kind, n, policy] or a chain [kind |-> "AndThen", a, b].                *)
(***************************************************************************)
EXTENDS Integers, Sequences, FiniteSets, TLC

VARIABLES
    build,          \* "debug": integer overflow panics; "release": it wraps
    panicked,       \* the program has aborted
    openIt,         \* an OpenEndedDateIterator           {from, duration, iterations}
    closedIt,       \* a ClosedDateIterator               {iter, to}
    pairIt,         \* an OpenEndedPairwiseDateIterator   {iter}
    closedPairIt,   \* a ClosedPairwiseDateIterator       {iter, to}
    openOut,        \* what each call of openIt.next() returned, in order
    closedOut,      \* the same for closedIt
    pairOut,        \* the same for pairIt
    closedPairOut,  \* the same for closedPairIt
    pc,             \* the last DateOp call made on the operands below
    opA,            \* a DateOp operand
    opB,            \* a second DateOp operand (the argument of and_then)
    opDate,         \* the date add_to is given
    opN,            \* the factor times is given
    opRes,          \* what the last call returned
    opTrace         \* the leaf add_to calls the last add_to made, in order

vars == <<build, panicked, openIt, closedIt, pairIt, closedPairIt,
          openOut, closedOut, pairOut, closedPairOut,
          pc, opA, opB, opDate, opN, opRes, opTrace>>

iterVars == <<openIt, closedIt, pairIt, closedPairIt,
              openOut, closedOut, pairOut, closedPairOut>>

opVars == <<pc, opA, opB, opDate, opN, opRes, opTrace>>

(***************************************************************************)
(* Bounds of the model.                                                    *)
(***************************************************************************)
\* how many times each iterator is advanced
MaxSteps == 3

(***************************************************************************)
(* Machine integers.                                                       *)
(***************************************************************************)
I32_MAX == 2147483647

I32_MIN == -I32_MAX - 1

\* i32::checked_mul(a, b) is None
MulOverflows(a, b) ==
    IF a = 0 \/ b = 0 THEN FALSE
    ELSE IF a > 0 /\ b > 0 THEN a > I32_MAX \div b
    ELSE IF a < 0 /\ b < 0 THEN
        \/ a = I32_MIN
        \/ b = I32_MIN
        \/ (-a) > I32_MAX \div (-b)
    ELSE LET neg == IF a < 0 THEN a ELSE b
             pos == IF a < 0 THEN b ELSE a
             \* the least x with x * pos >= I32_MIN
             low == (I32_MIN \div pos) + (IF I32_MIN % pos = 0 THEN 0 ELSE 1)
         IN  neg < low

\* i32::checked_add(a, b) is None
AddOverflows(a, b) ==
    \/ b > 0 /\ a > I32_MAX - b
    \/ b < 0 /\ a < I32_MIN - b

(***************************************************************************)
(* Option and panic.                                                       *)
(***************************************************************************)
None == [tag |-> "None"]

Panic == [tag |-> "Panic"]

IsDate(r) == "year" \in DOMAIN r

IsPair(r) == "start" \in DOMAIN r

IsOp(r) == "kind" \in DOMAIN r

Date(y, m, d) == [year |-> y, month |-> m, day |-> d]

(***************************************************************************)
(* The date value (chrono's NaiveDate, of which the source uses from_ymd,  *)
(* from_ymd_opt, pred, checked_add_signed, with_year, with_month, with_day *)
(* and the ordering).  Proleptic Gregorian calendar, years MIN_YEAR to     *)
(* MAX_YEAR.                                                               *)
(***************************************************************************)
MAX_YEAR == 262143

MIN_YEAR == -262144

LeapYear(y) == (y % 4 = 0 /\ y % 100 # 0) \/ y % 400 = 0

DaysInMonth(y, m) ==
    IF m = 2 THEN (IF LeapYear(y) THEN 29 ELSE 28)
    ELSE IF m \in {4, 6, 9, 11} THEN 30 ELSE 31

\* a u32 is held as the signed number with the same 32 bits, so that
\* (x as u32) of a negative x is x itself and u32::MAX is -1
ValidYmd(y, m, d) ==
    /\ MIN_YEAR <= y /\ y <= MAX_YEAR
    /\ 1 <= m /\ m <= 12
    /\ 1 <= d /\ d <= DaysInMonth(y, m)

\* NaiveDate::from_ymd_opt
FromYmdOpt(y, m, d) == IF ValidYmd(y, m, d) THEN Date(y, m, d) ELSE None

\* NaiveDate::from_ymd: panics on an invalid or out-of-range date
FromYmd(y, m, d) == IF ValidYmd(y, m, d) THEN Date(y, m, d) ELSE Panic

\* NaiveDate::pred: panics when the previous day is out of range
Pred(dt) ==
    IF dt.day > 1 THEN Date(dt.year, dt.month, dt.day - 1)
    ELSE IF dt.month > 1
         THEN Date(dt.year, dt.month - 1, DaysInMonth(dt.year, dt.month - 1))
    ELSE IF dt.year > MIN_YEAR THEN Date(dt.year - 1, 12, 31)
    ELSE Panic

\* Datelike::with_year, with_month, with_day
WithYear(dt, y) == FromYmdOpt(y, dt.month, dt.day)

WithMonth(dt, m) == FromYmdOpt(dt.year, m, dt.day)

WithDay(dt, d) == FromYmdOpt(dt.year, dt.month, d)

\* the number of the day in the proleptic Gregorian calendar (1970-01-01 is 0)
\* of day d of the month mp months after March of the year y that begins
\* in March
DaysFromCivil(y, mp, d) ==
    (y \div 400) * 146097 + (y % 400) * 365 + (y % 400) \div 4
    - (y % 400) \div 100 + (153 * mp + 2) \div 5 + d - 1 - 719468

DayNumber(dt) ==
    DaysFromCivil(IF dt.month <= 2 THEN dt.year - 1 ELSE dt.year,
                  IF dt.month > 2 THEN dt.month - 3 ELSE dt.month + 9,
                  dt.day)

\* the date of day doy of the year that begins in March of year y
CivilFromDayOfYear(y, doy, mp) ==
    Date(IF mp < 10 THEN y ELSE y + 1,
         IF mp < 10 THEN mp + 3 ELSE mp - 9,
         doy - (153 * mp + 2) \div 5 + 1)

CivilFromYearOfEra(era, doe, yoe) ==
    CivilFromDayOfYear(yoe + era * 400,
                       doe - (365 * yoe + yoe \div 4 - yoe \div 100),
                       (5 * (doe - (365 * yoe + yoe \div 4 - yoe \div 100)) + 2)
                           \div 153)

CivilFromDayOfEra(era, doe) ==
    CivilFromYearOfEra(era, doe,
        (doe - doe \div 1460 + doe \div 36524 - doe \div 146096) \div 365)

\* the date whose day number is z
FromDayNumber(z) ==
    CivilFromDayOfEra((z + 719468) \div 146097, (z + 719468) % 146097)

\* NaiveDate::checked_add_signed of a whole number of days: None out of range
CheckedAddDays(dt, days) ==
    IF \/ days > DayNumber(Date(MAX_YEAR, 12, 31)) - DayNumber(dt)
       \/ days < DayNumber(Date(MIN_YEAR, 1, 1)) - DayNumber(dt)
    THEN None
    ELSE FromDayNumber(DayNumber(dt) + days)

\* PartialOrd of the date value: dt < to
DateLess(dt, to) ==
    \/ dt.year < to.year
    \/ dt.year = to.year /\ dt.month < to.month
    \/ dt.year = to.year /\ dt.month = to.month /\ dt.day < to.day

\* Option::and_then(|dt| dt.with_month(m)) and and_then(|dt| dt.with_day(d))
\* on what the step before returned
ThenWithMonth(prev, m) == IF IsDate(prev) THEN WithMonth(prev, m) ELSE prev

ThenWithDay(prev, d) == IF IsDate(prev) THEN WithDay(prev, d) ELSE prev

(***************************************************************************)
(* date_iterator/mod.rs: the last day of a month.                          *)
(***************************************************************************)
\* x + 1 on a u32: u32::MAX + 1 panics in a debug build and wraps to 0
PlusOneOverflows(x) == x = -1

\* from_ymd_opt(year, month + 1, 1).unwrap_or_else(|| from_ymd(year + 1, 1, 1))
\* for the result first of from_ymd_opt
FirstOfNextMonth(year, first) ==
    IF IsDate(first) THEN first
    ELSE IF year = I32_MAX THEN Panic
    ELSE FromYmd(year + 1, 1, 1)

\* .pred() of the first day of the next month
PredOf(start) == IF IsDate(start) THEN Pred(start) ELSE Panic

\* last_day_of_month(year, month), month one-based: the date of the last
\* day (the code returns its day), or Panic
last_day_of_month(year, month) ==
    IF PlusOneOverflows(month) /\ build = "debug" THEN Panic
    ELSE PredOf(FirstOfNextMonth(year, FromYmdOpt(year, month + 1, 1)))

\* last_day_of_month_0(year, month_0), month zero-based
last_day_of_month_0(year, month_0) ==
    IF PlusOneOverflows(month_0) /\ build = "debug" THEN Panic
    ELSE last_day_of_month(year, month_0 + 1)

(***************************************************************************)
(* date_ops: the durations.                                                *)
(***************************************************************************)
DayDuration(n) == [kind |-> "Day", n |-> n, policy |-> "NA"]

YearDuration(n) == [kind |-> "Year", n |-> n, policy |-> "NA"]

\* policy is one of InvalidDateHandling: "Reject", "Previous", "Next"
MonthDuration(n, policy) == [kind |-> "Month", n |-> n, policy |-> policy]

\* the time delta (Duration as OldDuration) of n whole days
OldDuration(n) == [kind |-> "Old", n |-> n, policy |-> "NA"]

\* a time delta of more days than an i32 holds (n is its sign): the product
\* that OldDuration's unchecked multiplication returns when it is that large
OldDurationBeyond(n) == [kind |-> "OldBeyond", n |-> n, policy |-> "NA"]

\* DateOp::and_then
and_then(self, other) == [kind |-> "AndThen", a |-> self, b |-> other]

\* the tail of DayDuration::add_to: the year, month and day of naive set on
\* dt, with_year, with_day(1), with_month and with_day in this order
DaySet(dt, naive) ==
    IF ~IsDate(naive) THEN None
    ELSE ThenWithDay(ThenWithMonth(ThenWithDay(WithYear(dt, naive.year), 1),
                                   naive.month),
                     naive.day)

\* DayDuration::add_to
DayAddTo(self, dt) ==
    DaySet(dt, CheckedAddDays(FromYmd(dt.year, dt.month, dt.day), self.n))

\* YearDuration::add_to
YearAddTo(self, dt) ==
    IF AddOverflows(dt.year, self.n) THEN None
    ELSE WithYear(dt, dt.year + self.n)

\* (month0 + n) / 12 on i64, where / truncates toward zero
MonthQuot(month0, n) ==
    LET fq == (n \div 12) + ((n % 12) + month0) \div 12
        fr == ((n % 12) + month0) % 12
    IN  IF fq < 0 /\ fr # 0 THEN fq + 1 ELSE fq

\* ((month0 + n) % 12) as u32, where % has the sign of the dividend
MonthRem(month0, n) ==
    LET fq == (n \div 12) + ((n % 12) + month0) \div 12
        fr == ((n % 12) + month0) % 12
    IN  IF fq < 0 /\ fr # 0 THEN fr - 12 ELSE fr

\* x % 12 on a u32 (2^32 % 12 = 4)
U32Rem12(x) == IF x >= 0 THEN x % 12 ELSE (x + 4) % 12

\* the policy step of MonthDuration::add_to for a day past the month's last:
\* None, or the [year, month_0, day] to set
MonthInvalid(policy, next_year, next_month_0, last_day) ==
    IF policy = "Reject" THEN None
    ELSE IF policy = "Previous"
         THEN [year |-> next_year, month_0 |-> next_month_0, day |-> last_day]
    ELSE IF PlusOneOverflows(next_month_0) /\ build = "debug" THEN Panic
    ELSE IF U32Rem12(next_month_0 + 1) # 0
         THEN [year |-> next_year, month_0 |-> U32Rem12(next_month_0 + 1),
               day |-> 1]
    ELSE IF AddOverflows(next_year, 1) THEN None
    ELSE [year |-> next_year + 1, month_0 |-> U32Rem12(next_month_0 + 1),
          day |-> 1]

\* Option::and_then(|dt| dt.with_month(month_0 + 1)) on what the step before
\* returned
ThenWithMonth0(prev, month_0) ==
    IF ~IsDate(prev) THEN prev
    ELSE IF PlusOneOverflows(month_0) /\ build = "debug" THEN Panic
    ELSE WithMonth(prev, month_0 + 1)

\* the tail of MonthDuration::add_to: the [year, month_0, day] of target set
\* on dt, with_year, with_day(1), with_month and with_day in this order
MonthSet(dt, target) ==
    IF ~IsDate(target) THEN target
    ELSE ThenWithDay(ThenWithMonth0(ThenWithDay(WithYear(dt, target.year), 1),
                                    target.month_0),
                     target.day)

\* the match of MonthDuration::add_to on the day of dt against the last day
\* of the month it moves to
MonthTarget(self, dt, next_year, next_month_0, last_day) ==
    IF ~IsDate(last_day) THEN Panic
    ELSE IF dt.day > last_day.day
         THEN MonthInvalid(self.policy, next_year, next_month_0, last_day.day)
    ELSE [year |-> next_year, month_0 |-> next_month_0, day |-> dt.day]

\* MonthDuration::add_to from the carry additional_years and the month
\* next_month_0 on
MonthCarry(self, dt, additional_years, next_month_0) ==
    IF additional_years >= I32_MAX THEN None
    ELSE IF AddOverflows(dt.year, additional_years) THEN None
    ELSE MonthSet(dt,
             MonthTarget(self, dt, dt.year + additional_years, next_month_0,
                 last_day_of_month_0(dt.year + additional_years, next_month_0)))

\* MonthDuration::add_to
MonthAddTo(self, dt) ==
    MonthCarry(self, dt, MonthQuot(dt.month - 1, self.n),
               MonthRem(dt.month - 1, self.n))

\* impl DateOp for OldDuration, add_to: the date's own checked addition
OldAddTo(self, dt) ==
    IF self.kind = "OldBeyond" THEN None ELSE CheckedAddDays(dt, self.n)

\* add_to of a leaf duration
LeafAddTo(self, dt) ==
    IF self.kind = "Day" THEN DayAddTo(self, dt)
    ELSE IF self.kind = "Year" THEN YearAddTo(self, dt)
    ELSE IF self.kind = "Month" THEN MonthAddTo(self, dt)
    ELSE OldAddTo(self, dt)

\* DateOp::add_to with a chain whose second step is given the date the chain
\* was given instead of the date its first step returned
RECURSIVE add_to_run_same_date(_, _)
add_to_run_same_date(self, dt) ==
    IF self.kind = "AndThen"
    THEN LET first == add_to_run_same_date(self.a, dt)
         IN  IF IsDate(first.ret)
             THEN LET second == add_to_run_same_date(self.b, dt)
                  IN  [ret |-> second.ret, calls |-> first.calls \o second.calls]
             ELSE first
    ELSE [ret |-> LeafAddTo(self, dt), calls |-> <<self>>]

\* DateOp::add_to as it runs: what it returns (ret) and the leaf durations
\* whose add_to it called, in order (calls).  For a chain, AndThen::add_to:
\* self.0.add_to(dt).and_then(|dt| self.1.add_to(&dt))
RECURSIVE add_to_run(_, _)
add_to_run(self, dt) ==
    IF self.kind = "AndThen"
    THEN LET first == add_to_run(self.a, dt)
         IN  IF IsDate(first.ret)
             THEN LET second == add_to_run(self.b, first.ret)
                  IN  [ret |-> second.ret, calls |-> first.calls \o second.calls]
             ELSE first
    ELSE [ret |-> LeafAddTo(self, dt), calls |-> <<self>>]

\* DateOp::add_to
add_to(self, dt) == add_to_run(self, dt).ret

\* DayDuration::times, YearDuration::times, MonthDuration::times
CheckedTimes(self, n) ==
    IF MulOverflows(self.n, n) THEN None ELSE [self EXCEPT !.n = self.n * n]

\* impl DateOp for OldDuration, times: Some(*self * n), never None
OldTimes(self, n) ==
    IF self.kind = "OldBeyond"
    THEN (IF n = 0 THEN OldDuration(0)
          ELSE OldDurationBeyond(IF n > 0 THEN self.n ELSE -self.n))
    ELSE IF MulOverflows(self.n, n)
    THEN OldDurationBeyond(IF (self.n > 0) = (n > 0) THEN 1 ELSE -1)
    ELSE OldDuration(self.n * n)

\* DateOp::times
RECURSIVE times(_, _)
times(self, n) ==
    IF self.kind = "AndThen"
    THEN LET first == times(self.a, n)
         IN  IF ~IsOp(first) THEN first
             ELSE LET second == times(self.b, n)
                  IN  IF ~IsOp(second) THEN second
                      ELSE and_then(first, second)
    ELSE IF self.kind \in {"Day", "Year", "Month"} THEN CheckedTimes(self, n)
    ELSE OldTimes(self, n)

(***************************************************************************)
(* date_iterator: the four iterators.  Each next below is the method's     *)
(* result: what it returns (ret) and the iterator it leaves (iter).        *)
(***************************************************************************)
date_iterator_from(dt, duration) ==
    [from |-> dt, duration |-> duration, iterations |-> 0]

date_iterator_to(iter, to) == [iter |-> iter, to |-> to]

date_iterator_from_to(from, duration, to) ==
    date_iterator_to(date_iterator_from(from, duration), to)

\* OpenEndedDateIterator::pairwise
pairwise(self) == [iter |-> self]

\* ClosedDateIterator::pairwise
closed_pairwise(self) == [iter |-> pairwise(self.iter), to |-> self.to]

\* Option::and_then(|op| op.add_to(dt)) on the result scaled of times
ThenAddTo(scaled, dt) == IF IsOp(scaled) THEN add_to(scaled, dt) ELSE scaled

\* Option::and_then(|dt| op.add_to(dt)) on a date or None
ThenAdd(prev, op) == IF IsDate(prev) THEN add_to(op, prev) ELSE prev

\* OpenEndedDateIterator::current computed by adding the duration to the
\* value of the step before
current_chained(self) ==
    IF self.iterations = 0 THEN self.from
    ELSE ThenAdd(ThenAddTo(times(self.duration, self.iterations - 1), self.from),
                 self.duration)

\* OpenEndedDateIterator::current
current(self) == ThenAddTo(times(self.duration, self.iterations), self.from)

\* self.iterations += 1 on an i32
Incremented(self) ==
    [self EXCEPT !.iterations = IF @ = I32_MAX THEN I32_MIN ELSE @ + 1]

\* the body of OpenEndedDateIterator::next after let next = self.current(),
\* with a counter that moves only when the step has a value
OpenEndedStepStuck(self, next) ==
    IF next = Panic \/ (self.iterations = I32_MAX /\ build = "debug")
    THEN [ret |-> Panic, iter |-> self]
    ELSE [ret |-> next, iter |-> IF IsDate(next) THEN Incremented(self) ELSE self]

\* the body of OpenEndedDateIterator::next after let next = self.current():
\* self.iterations += 1; next
OpenEndedStep(self, next) ==
    IF next = Panic \/ (self.iterations = I32_MAX /\ build = "debug")
    THEN [ret |-> Panic, iter |-> self]
    ELSE [ret |-> next, iter |-> Incremented(self)]

\* Iterator for OpenEndedDateIterator
OpenEndedNext(self) == OpenEndedStep(self, current(self))

\* Some((next, try_opt!(after))) for the results of self.iter.next() and of
\* self.iter.current()
PairOf(next, after) ==
    IF ~IsDate(next) THEN next
    ELSE IF ~IsDate(after) THEN after
    ELSE [start |-> next, end |-> after]

\* the body of OpenEndedPairwiseDateIterator::next after self.iter.next(),
\* with the second element computed by adding the duration to the first one
OpenEndedPairwiseStepChained(self, inner) ==
    [ret |-> PairOf(inner.ret, ThenAdd(inner.ret, self.iter.duration)),
     iter |-> [self EXCEPT !.iter = inner.iter]]

\* the body of OpenEndedPairwiseDateIterator::next after self.iter.next(),
\* whose result is inner
OpenEndedPairwiseStep(self, inner) ==
    [ret |-> PairOf(inner.ret, current(inner.iter)),
     iter |-> [self EXCEPT !.iter = inner.iter]]

\* Iterator for OpenEndedPairwiseDateIterator
OpenEndedPairwiseNext(self) ==
    OpenEndedPairwiseStep(self, OpenEndedNext(self.iter))

\* the closure of ClosedDateIterator::next with dt <= self.to for dt < self.to
ClosedStepInclusive(self, inner) ==
    [ret |-> IF ~IsDate(inner.ret) THEN inner.ret
             ELSE IF DateLess(inner.ret, self.to) \/ inner.ret = self.to
                  THEN inner.ret
             ELSE None,
     iter |-> [self EXCEPT !.iter = inner.iter]]

\* the body of ClosedDateIterator::next after self.iter.next(), whose result
\* is inner: and_then(|dt| if dt < self.to { Some(dt) } else { None })
ClosedStep(self, inner) ==
    [ret |-> IF ~IsDate(inner.ret) THEN inner.ret
             ELSE IF DateLess(inner.ret, self.to) THEN inner.ret
             ELSE None,
     iter |-> [self EXCEPT !.iter = inner.iter]]

\* Iterator for ClosedDateIterator
ClosedNext(self) == ClosedStep(self, OpenEndedNext(self.iter))

\* the closure of ClosedPairwiseDateIterator::next with dts.1 < self.to for
\* dts.0 < self.to
ClosedPairwiseStepEnd(self, inner) ==
    [ret |-> IF ~IsPair(inner.ret) THEN inner.ret
             ELSE IF DateLess(inner.ret.end, self.to) THEN inner.ret
             ELSE None,
     iter |-> [self EXCEPT !.iter = inner.iter]]

\* the body of ClosedPairwiseDateIterator::next after self.iter.next(), whose
\* result is inner: and_then(|dts| if dts.0 < self.to { Some(dts) } else { None })
ClosedPairwiseStep(self, inner) ==
    [ret |-> IF ~IsPair(inner.ret) THEN inner.ret
             ELSE IF DateLess(inner.ret.start, self.to) THEN inner.ret
             ELSE None,
     iter |-> [self EXCEPT !.iter = inner.iter]]

\* Iterator for ClosedPairwiseDateIterator
ClosedPairwiseNext(self) ==
    ClosedPairwiseStep(self, OpenEndedPairwiseNext(self.iter))

(***************************************************************************)
(* The inputs the model draws from.                                        *)
(***************************************************************************)
Builds == {"debug", "release"}

Policies == {"Reject", "Previous", "Next"}

\* the dates of the tests and dates on the days that not every month has
Origins ==
    { Date(2001, 1, 31), Date(2000, 2, 29), Date(1996, 12, 25),
      Date(2000, 1, 15), Date(1996, 12, 31) }

\* the origins of the iterators
Froms == { Date(2001, 1, 31), Date(2000, 2, 29), Date(1996, 12, 25) }

\* the duration of the tests of date_iterator.rs, on a date without a time
TestDuration ==
    and_then(and_then(and_then(DayDuration(2), OldDuration(0)),
                      YearDuration(3)),
             MonthDuration(1, "Previous"))

Durations ==
    { MonthDuration(1, p) : p \in Policies }
    \cup { MonthDuration(-1, "Previous"), MonthDuration(1073741824, "Previous"),
           DayDuration(-1), DayDuration(1073741824), YearDuration(1),
           OldDuration(1), TestDuration }

Tos == { Date(2001, 3, 31), Date(2001, 1, 30), Date(2006, 3, 31) }

(***************************************************************************)
(* Spec: a caller builds the four iterators from one origin, duration and  *)
(* bound, and advances each of them any number of times.                   *)
(***************************************************************************)
OpsIdle ==
    /\ pc = "idle"
    /\ opA = DayDuration(0)
    /\ opB = DayDuration(0)
    /\ opDate = Date(1970, 1, 1)
    /\ opN = 0
    /\ opRes = None
    /\ opTrace = <<>>

Built(from, duration, to) ==
    /\ openIt = date_iterator_from(from, duration)
    /\ closedIt = date_iterator_from_to(from, duration, to)
    /\ pairIt = pairwise(date_iterator_from(from, duration))
    /\ closedPairIt = closed_pairwise(date_iterator_from_to(from, duration, to))
    /\ openOut = <<>>
    /\ closedOut = <<>>
    /\ pairOut = <<>>
    /\ closedPairOut = <<>>

Init ==
    /\ build \in Builds
    /\ panicked = FALSE
    /\ \E from \in Froms, duration \in Durations, to \in Tos :
           Built(from, duration, to)
    /\ OpsIdle

\* the values returned so far, after a call of next that returned r.ret
Returned(out, r) == IF r.ret = Panic THEN out ELSE Append(out, r.ret)

\* openIt.next() has the result r
OpenReturns(r) ==
    /\ panicked' = (r.ret = Panic)
    /\ openIt' = r.iter
    /\ openOut' = Returned(openOut, r)

\* openIt.next()
OpenAdvance ==
    /\ ~panicked
    /\ Len(openOut) < MaxSteps
    /\ OpenReturns(OpenEndedNext(openIt))
    /\ UNCHANGED <<build, closedIt, pairIt, closedPairIt,
                   closedOut, pairOut, closedPairOut, opVars>>

\* closedIt.next() has the result r
ClosedReturns(r) ==
    /\ panicked' = (r.ret = Panic)
    /\ closedIt' = r.iter
    /\ closedOut' = Returned(closedOut, r)

\* closedIt.next()
ClosedAdvance ==
    /\ ~panicked
    /\ Len(closedOut) < MaxSteps
    /\ ClosedReturns(ClosedNext(closedIt))
    /\ UNCHANGED <<build, openIt, pairIt, closedPairIt,
                   openOut, pairOut, closedPairOut, opVars>>

\* pairIt.next() has the result r
PairReturns(r) ==
    /\ panicked' = (r.ret = Panic)
    /\ pairIt' = r.iter
    /\ pairOut' = Returned(pairOut, r)

\* pairIt.next()
PairAdvance ==
    /\ ~panicked
    /\ Len(pairOut) < MaxSteps
    /\ PairReturns(OpenEndedPairwiseNext(pairIt))
    /\ UNCHANGED <<build, openIt, closedIt, closedPairIt,
                   openOut, closedOut, closedPairOut, opVars>>

\* closedPairIt.next() has the result r
ClosedPairReturns(r) ==
    /\ panicked' = (r.ret = Panic)
    /\ closedPairIt' = r.iter
    /\ closedPairOut' = Returned(closedPairOut, r)

\* closedPairIt.next()
ClosedPairAdvance ==
    /\ ~panicked
    /\ Len(closedPairOut) < MaxSteps
    /\ ClosedPairReturns(ClosedPairwiseNext(closedPairIt))
    /\ UNCHANGED <<build, openIt, closedIt, pairIt,
                   openOut, closedOut, pairOut, opVars>>

Next == OpenAdvance \/ ClosedAdvance \/ PairAdvance \/ ClosedPairAdvance

Spec == Init /\ [][Next]_vars

(***************************************************************************)
(* SpecOps: a caller takes a duration, may chain another one after it with *)
(* and_then, and calls times or add_to on the result once.                 *)
(***************************************************************************)
\* how many times and_then is applied to build the operand
MaxChain == 1

MonthCounts == {0, 1, 2, 4, 5, 12, 13, -1, -12, -13, -14}

\* whole days of a time delta small enough that OldDuration's multiplication
\* by an i32 stays within the i64 seconds it computes with
OldDays == {1, -3, 32768}

FirstOps ==
    { MonthDuration(n, p) : n \in MonthCounts, p \in Policies }
    \cup { OldDuration(n) : n \in OldDays }
    \cup { DayDuration(3), DayDuration(-1), DayDuration(1073741824),
           YearDuration(1), YearDuration(300000), YearDuration(-1073741824),
           MonthDuration(1073741824, "Previous") }

SecondOps ==
    { DayDuration(1), MonthDuration(1, "Previous"), YearDuration(1),
      OldDuration(32768) }

Factors == {0, 1, 2, -1, 3, I32_MAX, I32_MIN}

\* the number of and_then calls that built a duration
RECURSIVE ChainDepth(_)
ChainDepth(op) == IF op.kind = "AndThen" THEN 1 + ChainDepth(op.a) ELSE 0

OpsInit ==
    /\ build \in Builds
    /\ panicked = FALSE
    /\ pc = "ready"
    /\ opA \in FirstOps
    /\ opB \in SecondOps
    /\ opDate \in Origins
    /\ opN \in Factors
    /\ opRes = None
    /\ opTrace = <<>>
    /\ Built(opDate, opA, opDate)

\* opA = opA.and_then(opB)
CallAndThen ==
    /\ pc = "ready"
    /\ ChainDepth(opA) < MaxChain
    /\ opA' = and_then(opA, opB)
    /\ UNCHANGED <<build, panicked, iterVars, pc, opB, opDate, opN, opRes, opTrace>>

\* opRes = opA.times(opN)
CallTimes ==
    /\ pc = "ready"
    /\ pc' = "times"
    /\ opRes' = times(opA, opN)
    /\ panicked' = (times(opA, opN) = Panic)
    /\ UNCHANGED <<build, iterVars, opA, opB, opDate, opN, opTrace>>

\* opRes = opA.add_to(&opDate)
CallAddTo ==
    /\ pc = "ready"
    /\ pc' = "add_to"
    /\ opRes' = add_to(opA, opDate)
    /\ opTrace' = add_to_run(opA, opDate).calls
    /\ panicked' = (add_to(opA, opDate) = Panic)
    /\ UNCHANGED <<build, iterVars, opA, opB, opDate, opN>>

OpsNext == CallAndThen \/ CallTimes \/ CallAddTo

SpecOps == OpsInit /\ [][OpsNext]_vars

(***************************************************************************)
(* Properties of the iterators (Spec).                                     *)
(***************************************************************************)
\* duration.times(j).add_to(origin), written out from the two DateOp methods
ScaledFromOrigin(origin, duration, j) ==
    LET scaled == times(duration, j)
    IN  IF IsOp(scaled) THEN add_to(scaled, origin) ELSE scaled

\* the last element of a non-empty sequence
Last(seq) == seq[Len(seq)]

\* C1: the open-ended iterator starts with its step counter at 0; every
\* advance that returns leaves origin and duration as they were, moves the
\* counter by exactly one, and after j advances returns
\* duration.times(j).add_to(origin), whether or not the earlier advances
\* yielded a value; nothing is computed from a date yielded before.
C1_OpenStepFromOrigin ==
    /\ openIt.iterations = 0
    /\ [](openIt.iterations = Len(openOut))
    /\ [][/\ openIt'.from = openIt.from
          /\ openIt'.duration = openIt.duration
          /\ openOut' # openOut =>
                /\ openIt'.iterations = openIt.iterations + 1
                /\ openOut' = Append(openOut,
                                     ScaledFromOrigin(openIt.from, openIt.duration,
                                                      Len(openOut)))]_vars

\* C1 witness: from Jan 31 by one month the third advance has returned
\* Mar 31 after Feb 28 was yielded (Feb 28 plus one month is Mar 28)
C1_Witness ==
    /\ Len(openOut) >= 3
    /\ openIt.duration = MonthDuration(1, "Previous")
    /\ openOut[2] = Date(2001, 2, 28)
    /\ openOut[3] = Date(2001, 3, 31)

\* C2: every date the bounded iterator has yielded is strictly less than
\* its bound, so the bound itself is never yielded.
C2_BoundedExclusive ==
    \A i \in 1..Len(closedOut) :
        IsDate(closedOut[i]) =>
            /\ DateLess(closedOut[i], closedIt.to)
            /\ closedOut[i] # closedIt.to

\* C2 witness: the bounded iterator has yielded dates and then ended on the
\* step whose value is the bound itself
C2_Witness ==
    /\ Len(closedOut) >= 3
    /\ IsDate(closedOut[1])
    /\ IsDate(closedOut[2])
    /\ closedOut[3] = None
    /\ ScaledFromOrigin(closedIt.iter.from, closedIt.iter.duration, 2) = closedIt.to

C7_BoundedEndIsFinal ==
    \A i \in 1..Len(closedOut) : \A j \in i..Len(closedOut) :
        closedOut[i] = None => closedOut[j] = None

\* C8: the bounded pairwise iterator yields a pair only if its first
\* element is below the bound, and ends on a pair whose first element is
\* not; advanced as often as the plain bounded iterator, it yields a pair
\* exactly where the plain one yields a date, that date being the pair's
\* first element, wherever the following step's value can be computed.
C8_BoundedPairwise ==
    LET origin == closedPairIt.iter.iter.from
        duration == closedPairIt.iter.iter.duration
        to == closedPairIt.to
    IN  /\ \A k \in 1..Len(closedPairOut) :
               /\ IsPair(closedPairOut[k]) =>
                      DateLess(closedPairOut[k].start, to)
               /\ LET start == ScaledFromOrigin(origin, duration, k - 1)
                  IN  IsDate(start) /\ ~DateLess(start, to) =>
                          closedPairOut[k] = None
        /\ \A k \in 1..Len(closedPairOut) :
               k <= Len(closedOut)
               /\ IsDate(ScaledFromOrigin(origin, duration, k)) =>
                   /\ IsPair(closedPairOut[k]) <=> IsDate(closedOut[k])
                   /\ IsPair(closedPairOut[k]) =>
                          closedPairOut[k].start = closedOut[k]

\* C8 witness: both bounded iterators have been advanced three times; the
\* second pair yielded ends on the bound itself and the third advance ended
\* the sequence
C8_Witness ==
    /\ Len(closedPairOut) >= 3
    /\ Len(closedOut) >= 3
    /\ IsPair(closedPairOut[1])
    /\ IsPair(closedPairOut[2])
    /\ closedPairOut[2].end = closedPairIt.to
    /\ closedPairOut[3] = None
    /\ closedOut[2] = closedPairOut[2].start

\* C10 as stated: once the open-ended iterator has returned end-of-sequence,
\* every later advance returns end-of-sequence too.
C10_OpenEndIsFinal ==
    \A i \in 1..Len(openOut) : \A j \in i..Len(openOut) :
        openOut[i] = None => openOut[j] = None

\* C10 as amended: after the open-ended iterator has returned
\* end-of-sequence its step counter still moves by one on every advance,
\* and a later advance returns end-of-sequence exactly when
\* duration.times(step).add_to(origin) has no value at its own step: the
\* iterator yields again when a later step has one.
C10_OpenEndFollowsStep ==
    [][(\E i \in 1..Len(openOut) : openOut[i] = None) /\ openOut' # openOut =>
           /\ openIt'.iterations = openIt.iterations + 1
           /\ Len(openOut') = Len(openOut) + 1
           /\ Last(openOut') = None <=>
                  ~IsDate(ScaledFromOrigin(openIt.from, openIt.duration,
                                           openIt.iterations))]_vars

\* C10 witness: from Jan 31 by one month (Reject) the advance at step 1
\* returned end-of-sequence and the advance at step 2 yielded Mar 31
C10_Witness ==
    /\ Len(openOut) >= 3
    /\ openIt.duration = MonthDuration(1, "Reject")
    /\ openOut[2] = None
    /\ openOut[3] = Date(2001, 3, 31)

(***************************************************************************)
(* Properties of the durations (SpecOps).                                  *)
(***************************************************************************)
\* C3: adding N >= 0 months to a date whose target month (origin month plus
\* N) is a month of a representable year: a day past the target month's
\* last day gives nothing under Reject, the target month's last day under
\* Previous and day 1 of the following month under Next; any other day is
\* kept, in the target month and year, under every policy.
C3_MonthPolicy ==
    pc = "add_to" /\ opA.kind = "Month" /\ opA.n >= 0 =>
        LET total == (opDate.month - 1) + opA.n
            year == opDate.year + total \div 12
            month == (total % 12) + 1
            last == DaysInMonth(year, month)
        IN  year <= MAX_YEAR =>
                IF opDate.day > last
                THEN CASE opA.policy = "Reject" -> opRes = None
                       [] opA.policy = "Previous" -> opRes = Date(year, month, last)
                       [] opA.policy = "Next" ->
                             opRes = IF month = 12 THEN Date(year + 1, 1, 1)
                                     ELSE Date(year, month + 1, 1)
                ELSE opRes = Date(year, month, opDate.day)

\* C4: adding a chain A.and_then(B) to a date d returns what B returns for
\* the date A returns for d, and calls A and then B; when A returns nothing
\* the chain returns nothing and B is not called.
C4_ChainOrder ==
    pc = "add_to" /\ opA.kind = "AndThen" =>
        LET first == add_to_run(opA.a, opDate)
        IN  IF IsDate(first.ret)
            THEN LET second == add_to_run(opA.b, first.ret)
                 IN  /\ opRes = second.ret
                     /\ opTrace = first.calls \o second.calls
            ELSE /\ opRes = first.ret
                 /\ first.ret = None => opRes = None
                 /\ opTrace = first.calls

\* C4 witness: a chain has been added to a date, both steps ran and gave a
\* date, and the other order would have given something else
C4_Witness ==
    /\ pc = "add_to"
    /\ opA.kind = "AndThen"
    /\ IsDate(opRes)
    /\ Len(opTrace) = 2
    /\ LET other == add_to(opA.b, opDate)
       IN  ~IsDate(other) \/ add_to(opA.a, other) # opRes

\* Duration::max_value() is i64::MAX milliseconds, which is 106751991167
\* whole days, 99 * 2^30 + 13780 * 2^15 + 7551.  For a time delta of d whole
\* days, |d| <= 2^15: the product of d and n is more days than that.
OldRangeExceeded(d, n) ==
    LET a  == IF d < 0 THEN -d ELSE d
        q2 == 99 \div a
        t1 == (99 % a) * 32768 + 13780
        q1 == t1 \div a
        t0 == (t1 % a) * 32768 + 7551
        q0 == t0 \div a
        most == q2 * 1073741824 + q1 * 32768 + q0
    IN  IF a < 50 \/ n = 0 THEN FALSE
        ELSE IF n = I32_MIN THEN TRUE
        ELSE (IF n < 0 THEN -n ELSE n) > most

\* the product of a duration's magnitude (of one of its components, for a
\* chain) and n is outside the range the duration can represent
RECURSIVE ProductExceedsRange(_, _)
ProductExceedsRange(op, n) ==
    IF op.kind = "AndThen"
    THEN ProductExceedsRange(op.a, n) \/ ProductExceedsRange(op.b, n)
    ELSE IF op.kind = "Old" THEN OldRangeExceeded(op.n, n)
    ELSE MulOverflows(op.n, n)

\* C6: times(n) does not panic; it returns nothing when the product of the
\* magnitude and n is outside the representable range, and the magnitude
\* times n otherwise; a chain's times(n) is the chain of its components'
\* times(n), and nothing when either of them is nothing.
C6_TimesChecked ==
    pc = "times" =>
        /\ opRes # Panic
        /\ ProductExceedsRange(opA, opN) => opRes = None
        /\ opA.kind # "AndThen" /\ ~ProductExceedsRange(opA, opN) =>
               IF MulOverflows(opA.n, opN) THEN IsOp(opRes)
               ELSE opRes = [opA EXCEPT !.n = opA.n * opN]
        /\ opA.kind = "AndThen" =>
               IF IsOp(times(opA.a, opN)) /\ IsOp(times(opA.b, opN))
               THEN opRes = and_then(times(opA.a, opN), times(opA.b, opN))
               ELSE opRes = None

\* C9: adding N months, N of either sign, to a date on a day every month
\* has gives the same day in month (m0 + N) mod 12 of the year moved by the
\* floor of (m0 + N) / 12, m0 being the origin's zero-based month, when
\* that year is representable.
C9_FloorCarry ==
    pc = "add_to" /\ opA.kind = "Month" /\ opDate.day <= 28 =>
        LET total == (opDate.month - 1) + opA.n
            year == opDate.year + total \div 12
            month == (total % 12) + 1
        IN  MIN_YEAR <= year /\ year <= MAX_YEAR =>
                opRes = Date(year, month, opDate.day)

====
